---- MODULE Spec2Model ----
(***************************************************************************)
(* Model of the chat widget of src/app/protected/page.tsx: the session id, *)
(* the message history and its mirror in localStorage, the reply formatter *)
(* and the submission / settlement handlers of sendMessage.                *)
(*                                                                         *)
(* A text is a sequence of tokens.  A token is one character (".", " ",    *)
(* the newline, ",", a letter) or a run of characters that holds no        *)
(* newline and no ". ", and neither starts nor ends with white space or a  *)
(* period, so that split('\n'), split('. '), trim() and endsWith('.') act  *)
(* on a token as on one letter.  TokenLength gives the number of           *)
(* characters of a token, so that safeText.length is computed exactly.     *)
(***************************************************************************)
EXTENDS Integers, Sequences, FiniteSets, TLC

\* ------------------------------------------------------------------ bounds

\* history length above which no further submission is accepted
MaxMessages == 4
\* number of mounts (page loads) of one widget instance
MaxMounts == 2
\* number of streams of Math.random() draws a mount can meet
MaxSeeds == 1
\* resolution of Math.random(): the draw k stands for k / RandomResolution
RandomResolution == 64
\* length of the longest cognito:groups list of an id token
MaxGroups == 3
\* number of tokens of the longest text given to formatResponse on its own
MaxTextLength == 4

\* ---------------------------------------------------------------- constants

\* [...Array(32)]
IdLength == 32
\* Math.random() * 16 and toString(16)
Radix == 16
\* safeText.length > 100
LongTextLimit == 100
\* error.response?.status === 404
NotFound == 404

\* ------------------------------------------------------------------- texts

NL == "\n"
LongRun == "xxxxxxxxxxxxxxxxxxxxxxxxxxxxxxxxxxxxxxxxxxxxxxxxxxxxxxxxxxxxxxxxxxxxxxxxxxxxxxxxxxxxxxxxxxxxxxxxxxxxx"
ObjectObject == "[object Object]"

\* number of characters of a token
TokenLength(c) ==
  CASE c = "Error: Webhook not found (404)" -> 30
    [] c = "Check n8n setup" -> 15
    [] c = "Error: Could not reach AI" -> 25
    [] c = "AI response received" -> 20
    [] c = ObjectObject -> 15
    [] c = LongRun -> 101
    [] c = "Hello" -> 5
    [] c = "Hi there" -> 8
    [] OTHER -> 1

RECURSIVE TextLength(_)
TextLength(t) == IF t = <<>> THEN 0 ELSE TokenLength(Head(t)) + TextLength(Tail(t))

IsWhiteSpace(c) == c \in {" ", NL}

RECURSIVE TrimStart(_)
TrimStart(t) ==
  IF t # <<>> /\ IsWhiteSpace(Head(t)) THEN TrimStart(Tail(t)) ELSE t

RECURSIVE TrimEnd(_)
TrimEnd(t) ==
  IF t # <<>> /\ IsWhiteSpace(t[Len(t)]) THEN TrimEnd(SubSeq(t, 1, Len(t) - 1)) ELSE t

\* String.prototype.trim
Trim(t) == TrimEnd(TrimStart(t))

\* String.prototype.endsWith('.')
EndsWithPeriod(t) == t # <<>> /\ t[Len(t)] = "."

\* index of the first occurrence of sep in t, 0 when there is none
IndexOf(t, sep) ==
  LET hits == {i \in 1..(Len(t) - Len(sep) + 1) : SubSeq(t, i, i + Len(sep) - 1) = sep}
  IN  IF hits = {} THEN 0 ELSE CHOOSE i \in hits : \A j \in hits : i <= j

\* String.prototype.split(sep) for a non-empty separator
RECURSIVE Split(_, _)
Split(t, sep) ==
  LET i == IndexOf(t, sep)
  IN  IF i = 0 THEN <<t>>
      ELSE <<SubSeq(t, 1, i - 1)>> \o Split(SubSeq(t, i + Len(sep), Len(t)), sep)

\* lines.filter((line) => line.trim() !== '')
\* the filter that keeps every line
NonBlank_KeepAll(s) == s

RECURSIVE NonBlank(_)
NonBlank(s) ==
  IF s = <<>> THEN <<>>
  ELSE (IF Trim(Head(s)) # <<>> THEN <<Head(s)>> ELSE <<>>) \o NonBlank(Tail(s))

\* Array.prototype.join
RECURSIVE Join(_, _)
Join(parts, sep) ==
  IF parts = <<>> THEN <<>>
  ELSE IF Len(parts) = 1 THEN parts[1]
  ELSE parts[1] \o sep \o Join(Tail(parts), sep)

\* ------------------------------------------------------------------ values

\* A JavaScript value that a message content or a stored content can be:
\*   string     a string (text)
\*   undefined  undefined
\*   fragment   the element <>{text}</>, whose props.children is a string
\*   blocks     the element <>{items.map(<p>..</p>)}</>, whose props.children
\*              is an array of <p> elements, one per text of items
\*   elements   an array of <p> elements, one per text of items
\*   objects    an array of plain objects, what JSON.parse(JSON.stringify(..))
\*              makes of an array of <p> elements
StringValue(t) == [type |-> "string", text |-> t, items |-> <<>>]
Undefined == [type |-> "undefined", text |-> <<>>, items |-> <<>>]
Fragment(t) == [type |-> "fragment", text |-> t, items |-> <<>>]
Blocks(ps) == [type |-> "blocks", text |-> <<>>, items |-> ps]
Elements(ps) == [type |-> "elements", text |-> <<>>, items |-> ps]
Objects(ps) == [type |-> "objects", text |-> <<>>, items |-> ps]

\* String(text ?? '') of a value that is not a string: an array joins the
\* String of its entries with ",", null and undefined give ''
StringOf(v) ==
  IF v.type \in {"objects", "elements"}
  THEN Join([i \in DOMAIN v.items |-> <<ObjectObject>>], <<",">>)
  ELSE <<>>

\* s.trim() + (s.endsWith('.') ? '' : '.')
Sentence(s) == Trim(s) \o (IF EndsWithPeriod(s) THEN <<>> ELSE <<".">>)

formatResponse(v) ==
  LET safeText == IF v.type = "string" THEN v.text ELSE StringOf(v)
      lines == NonBlank(Split(safeText, <<NL>>))
      parts == Split(safeText, <<".", " ">>)
      sentences == [i \in DOMAIN parts |-> Sentence(parts[i])]
  IN  IF Len(lines) > 1 THEN Blocks(lines)
      ELSE IF Len(sentences) > 1 \/ TextLength(safeText) > LongTextLimit
           THEN Blocks(sentences)
           ELSE Fragment(safeText)

\* -------------------------------------------------------------- session id

HexDigits == <<"0", "1", "2", "3", "4", "5", "6", "7", "8", "9", "a", "b", "c", "d", "e", "f">>

\* Number.prototype.toString(16) of a natural number
RECURSIVE ToHex(_)
ToHex(n) ==
  IF n < Radix THEN <<HexDigits[n + 1]>>
  ELSE ToHex(n \div Radix) \o <<HexDigits[(n % Radix) + 1]>>

\* Math.round in place of Math.floor: the draws of 31/32 and above give 16
FloorTimes16_Round(k) == (2 * k * Radix + RandomResolution) \div (2 * RandomResolution)

\* Math.floor(r * 16) for the draw r = k / RandomResolution of Math.random()
FloorTimes16(k) == (k * Radix) \div RandomResolution

\* The streams of draws of Math.random() a call of generateSessionId can meet:
\* stream s gives (s + 37 * i) % RandomResolution as its i-th draw.
RandomStreams ==
  {[i \in 1..(IdLength + 1) |-> (s + 37 * i) % RandomResolution] : s \in 0..(MaxSeeds - 1)}

generateSessionId(draws) ==
  Join([i \in 1..IdLength |-> ToHex(FloorTimes16(draws[i]))], <<>>)

\* ----------------------------------------------------------------- storage

\* A localStorage entry: absent (getItem gives null) or a string.  The string
\* under chatMessages is "" (empty), a text that is no JSON (garbage), a JSON
\* text that is no array (object: "{}"), or a JSON array (array) of items.
\* The string under chatSessionId is a text.
Absent == [present |-> FALSE, syntax |-> "empty", items |-> <<>>]
EmptyString == [present |-> TRUE, syntax |-> "empty", items |-> <<>>]
Garbage == [present |-> TRUE, syntax |-> "garbage", items |-> <<>>]
JsonObject == [present |-> TRUE, syntax |-> "object", items |-> <<>>]
JsonArray(items) == [present |-> TRUE, syntax |-> "array", items |-> items]

\* `if (storedMessages)`: null and '' are falsy
Truthy(entry) == entry.present /\ entry.syntax # "empty"

NoId == [present |-> FALSE, value |-> <<>>]
StoredId(id) == [present |-> TRUE, value |-> id]

\* `if (storedSessionId)`
TruthyId(entry) == entry.present /\ entry.value # <<>>

\* "[{}]": a JSON array whose entry has no role and no content
EmptyObjectItem == [role |-> "undefined", content |-> Undefined]

\* what chatMessages can hold when the page is first opened
InitialPayloads ==
  {Absent, EmptyString, Garbage, JsonObject, JsonArray(<<>>), JsonArray(<<EmptyObjectItem>>)}

\* JSON.parse(JSON.stringify(content)) of a storable content: a string stays
\* a string, an array of <p> elements becomes an array of plain objects
\* (type, key, ref, props, _owner), no longer elements
JsonOfContent(c) == IF c.type = "elements" THEN Objects(c.items) ELSE c

\* JSON.stringify(storableMessages)
JsonStringify(storable) ==
  JsonArray([i \in DOMAIN storable |->
              [role |-> storable[i].role, content |-> JsonOfContent(storable[i].content)]])

\* typeof msg.content === 'string' ? msg.content : msg.content.props.children
StorableContent(c) ==
  CASE c.type = "string" -> c
    [] c.type = "fragment" -> StringValue(c.text)
    [] c.type = "blocks" -> Elements(c.items)
    [] OTHER -> Undefined

\* msg.content.props throws a TypeError when msg.content is undefined
StorableThrows(msgs) == \E i \in DOMAIN msgs : msgs[i].content.type = "undefined"

storableMessages(msgs) ==
  [i \in DOMAIN msgs |-> [role |-> msgs[i].role, content |-> StorableContent(msgs[i].content)]]

\* msg.role === 'ai' ? formatResponse(msg.content) : msg.content
LoadedMessage(item) ==
  [role |-> item.role,
   content |-> IF item.role = "ai" THEN formatResponse(item.content) ELSE item.content]

\* parsedMessages.map(...)
LoadedMessages(items) == [i \in DOMAIN items |-> LoadedMessage(items[i])]

\* ---------------------------------------------------------------- requests

\* the trimmed input in place of the input
UserMessage_Trimmed(inputText) == [role |-> "user", content |-> StringValue(Trim(inputText))]

\* const userMessage: Message = { role: 'user', content: input }
UserMessage(inputText) == [role |-> "user", content |-> StringValue(inputText)]

AiMessage(content) == [role |-> "ai", content |-> content]

\* `if (!input) return`: no trim
Rejected_NoTrim(inputText) == inputText = <<>>

\* `if (!input.trim()) return`
Rejected(inputText) == Trim(inputText) = <<>>

FallbackText == <<"AI response received">>
NotFoundText == <<"Error: Webhook not found (404)", ".", " ", "Check n8n setup", ".">>
UnreachableText == <<"Error: Could not reach AI">>

\* response.data of a successful response: output is absent or a string
NoOutput == [hasOutput |-> FALSE, output |-> <<>>]
Output(t) == [hasOutput |-> TRUE, output |-> t]

\* response.data.output ?? 'AI response received': an empty output is kept
OutputOrFallback_Nullish(data) ==
  IF data.hasOutput THEN data.output ELSE <<"AI response received">>

\* response.data.output || 'AI response received'
OutputOrFallback(data) ==
  IF data.hasOutput /\ data.output # <<>> THEN data.output ELSE FallbackText

\* a failure of the request: an AxiosError with the status of its response
\* (0: no response, a network error or a timeout), or another error
Failure(axiosError, status) == [isAxiosError |-> axiosError, status |-> status]

\* error.response?.status >= 400 in place of === 404
errorMessage_AnyHttpError(failure) ==
  IF failure.isAxiosError /\ failure.status >= 400
  THEN <<"Error: Webhook not found (404)", ".", " ", "Check n8n setup", ".">>
  ELSE <<"Error: Could not reach AI">>

\* axios.isAxiosError(error) && error.response?.status === 404 ? ... : ...
errorMessage(failure) ==
  IF failure.isAxiosError /\ failure.status = NotFound THEN NotFoundText ELSE UnreachableText

\* { Authorization: `Bearer ${apiKey}` } whatever the key is
Headers_Always(key) == <<"Bearer", " ">> \o key

\* apiKey ? { Authorization: `Bearer ${apiKey}` } : {}
Headers(key) == IF key # <<>> THEN <<"Bearer", " ">> \o key ELSE <<>>

\* the texts a user types
UserInputs == {<<>>, <<" ">>, <<"Hello">>, <<"Hello", " ">>}

\* the response bodies the endpoint sends
ResponseData ==
  {NoOutput, Output(<<>>), Output(<<"Hi there", ".">>), Output(<<"a", NL, "b">>),
   Output(<<"a", ".", " ", "b">>), Output(<<LongRun>>)}

\* the failures a request meets
Failures ==
  {Failure(TRUE, NotFound), Failure(TRUE, 500), Failure(TRUE, 0), Failure(FALSE, 0)}

Widgets == {1, 2}

\* ------------------------------------------------------------------- state

VARIABLES
  storage,          \* localStorage of the browser profile: chatMessages, chatSessionId
  storageMode,      \* "ok", "denied" (getItem and setItem throw), "full" (setItem throws)
  apiKey,           \* the apiKey prop
  tabs,             \* the widget instances that are open on the profile
  pc,               \* per widget: where it is in its life (mount .. ready, crashed)
  messages,         \* per widget: the messages state, as of the last render
  input,            \* per widget: the input state
  sessionId,        \* per widget: the sessionId state, as of the last render
  queuedMessages,   \* per widget: the setMessages call of the mount effect, not yet rendered
  queuedSessionId,  \* per widget: the setSessionId call of the mount effect, not yet rendered
  requests,         \* per widget: the axios.post calls of this page load, in submission order
  mounts,           \* per widget: number of page loads so far
  error,            \* per widget: the error that escaped an effect ("none" when none did)
  lastOp,           \* the handler or effect that ran last, and what settled the request
  page,             \* a request of ProtectedPage: what fetchAuthSession does, the session, the html
  format            \* a call of formatResponse on its own: the text and the result

vars ==
  <<storage, storageMode, apiKey, tabs, pc, messages, input, sessionId,
    queuedMessages, queuedSessionId, requests, mounts, error, lastOp, page, format>>

\* the handler or effect `op` ran in widget w; data and failure are the
\* response and the error a settlement received
Op(op, w) == [op |-> op, w |-> w, data |-> NoOutput, failure |-> Failure(FALSE, 0)]

\* ------------------------------------------------------------ ProtectedPage

\* groups: ['admin', 'user', 'staff']
GroupNames == {"admin", "user", "staff"}

\* the lists of at most n group names
RECURSIVE GroupLists(_)
GroupLists(n) ==
  IF n = 0 THEN {<<>>}
  ELSE GroupLists(n - 1) \cup
       {Append(l, g) : l \in {x \in GroupLists(n - 1) : Len(x) = n - 1}, g \in GroupNames}

\* What fetchAuthSession() does: it throws, or it returns a session that has
\* no tokens, tokens with no idToken, an idToken whose payload has no
\* cognito:groups claim, or an idToken with a list of groups.  "null" is the
\* session the operation returns in place of one.
SessionOf(kind, groups) == [kind |-> kind, groups |-> groups]
NullSession == SessionOf("null", <<>>)

FetchOutcomes ==
  {SessionOf(k, <<>>) : k \in {"throws", "null", "noTokens", "noIdToken", "noClaim"}}
    \cup {SessionOf("groups", l) : l \in GroupLists(MaxGroups)}

\* try { return await fetchAuthSession() } catch (error) { return null }
operation(outcome) == IF outcome.kind = "throws" THEN NullSession ELSE outcome

\* session?.tokens?.idToken?.payload['cognito:groups'] || []
GroupsOf(session) == IF session.kind = "groups" THEN session.groups ELSE <<>>

\* groups[0] === 'admin' in place of groups.includes('admin')
Includes_FirstOnly(groups, name) == groups # <<>> /\ groups[1] = name

\* Array.prototype.includes
Includes(groups, name) == \E k \in DOMAIN groups : groups[k] = name

\* no request of the page is being served
PageIdle == [pc |-> "idle", outcome |-> NullSession, session |-> NullSession, html |-> "none"]

\* no call of formatResponse on its own is being made
FormatIdle == [pc |-> "idle", input |-> Undefined, result |-> Undefined]

NotQueued == [set |-> FALSE, value |-> <<>>]
Queued(v) == [set |-> TRUE, value |-> v]

\* useState([]), useState(''), useState(''): the first render of a widget
InitWidgets ==
  /\ pc = [w \in Widgets |-> "mount"]
  /\ messages = [w \in Widgets |-> <<>>]
  /\ input = [w \in Widgets |-> <<>>]
  /\ sessionId = [w \in Widgets |-> <<>>]
  /\ queuedMessages = [w \in Widgets |-> NotQueued]
  /\ queuedSessionId = [w \in Widgets |-> NotQueued]
  /\ requests = [w \in Widgets |-> <<>>]
  /\ mounts = [w \in Widgets |-> 1]
  /\ error = [w \in Widgets |-> "none"]
  /\ lastOp = Op("open", 1)

Init ==
  /\ storage \in [chatMessages : InitialPayloads, chatSessionId : {NoId}]
  /\ storageMode \in {"ok", "denied", "full"}
  /\ apiKey \in {<<>>, <<"k">>}
  /\ tabs = {1}
  /\ InitWidgets
  /\ page = PageIdle
  /\ format = FormatIdle

\* the error a localStorage.setItem call throws ("none": it returns)
SetItemError ==
  CASE storageMode = "denied" -> "SecurityError"
    [] storageMode = "full" -> "QuotaExceededError"
    [] OTHER -> "none"

\* the error the load of the mount effect throws: getItem, JSON.parse, .map
LoadError ==
  LET stored == storage.chatMessages
  IN  CASE storageMode = "denied" -> "SecurityError"
        [] ~Truthy(stored) -> "none"
        [] stored.syntax = "garbage" -> "SyntaxError"
        [] stored.syntax = "object" -> "TypeError"
        [] OTHER -> "none"

\* an error escapes an effect: React unmounts the tree
Crash(w, err) ==
  /\ pc' = [pc EXCEPT ![w] = "crashed"]
  /\ error' = [error EXCEPT ![w] = err]

\* the mount effect, useEffect(() => {...}, [])
MountEffect(w, draws) ==
  /\ pc[w] = "mount"
  /\ lastOp' = Op("mountEffect", w)
  /\ UNCHANGED <<storageMode, apiKey, tabs, page, format, messages, input, sessionId, requests, mounts>>
  /\ LET stored == storage.chatMessages
         storedSessionId == storage.chatSessionId
         newSessionId == generateSessionId(draws)
     IN  IF LoadError # "none"
         THEN /\ Crash(w, LoadError)
              /\ UNCHANGED <<storage, queuedMessages, queuedSessionId>>
         ELSE /\ queuedMessages' =
                   IF Truthy(stored)
                   THEN [queuedMessages EXCEPT ![w] = Queued(LoadedMessages(stored.items))]
                   ELSE queuedMessages
              /\ IF TruthyId(storedSessionId)
                 THEN /\ queuedSessionId' = [queuedSessionId EXCEPT ![w] = Queued(storedSessionId.value)]
                      /\ pc' = [pc EXCEPT ![w] = "mountSave"]
                      /\ UNCHANGED <<storage, error>>
                 ELSE /\ queuedSessionId' = [queuedSessionId EXCEPT ![w] = Queued(newSessionId)]
                      /\ IF SetItemError # "none"
                         THEN /\ Crash(w, SetItemError)
                              /\ UNCHANGED storage
                         ELSE /\ storage' = [storage EXCEPT !.chatSessionId = StoredId(newSessionId)]
                              /\ pc' = [pc EXCEPT ![w] = "mountSave"]
                              /\ UNCHANGED error

\* the error the save effect throws on the messages msgs
SaveError(msgs) == IF StorableThrows(msgs) THEN "TypeError" ELSE SetItemError

\* the save effect, useEffect(() => {...}, [messages]), run on msgs; the
\* widget goes on to `next` when it returns
saveEffect(w, msgs, next) ==
  IF SaveError(msgs) # "none"
  THEN /\ Crash(w, SaveError(msgs))
       /\ UNCHANGED storage
  ELSE /\ storage' = [storage EXCEPT !.chatMessages = JsonStringify(storableMessages(msgs))]
       /\ pc' = [pc EXCEPT ![w] = next]
       /\ UNCHANGED error

\* the save effect of a mount: the first one runs right after the mount
\* effect, on the messages of the first render; the second one after the
\* render of the loaded messages
SaveEffect(w) ==
  /\ pc[w] \in {"mountSave", "save"}
  /\ lastOp' = Op("saveEffect", w)
  /\ saveEffect(w, messages[w], IF pc[w] = "mountSave" THEN "render" ELSE "ready")
  /\ UNCHANGED <<storageMode, apiKey, tabs, page, format, messages, input, sessionId,
                 queuedMessages, queuedSessionId, requests, mounts>>

\* the render of the state the mount effect set; the save effect is due
\* after it when setMessages was called (a new array, whatever it holds)
Render(w) ==
  /\ pc[w] = "render"
  /\ lastOp' = Op("render", w)
  /\ messages' = IF queuedMessages[w].set
                 THEN [messages EXCEPT ![w] = queuedMessages[w].value]
                 ELSE messages
  /\ sessionId' = IF queuedSessionId[w].set
                  THEN [sessionId EXCEPT ![w] = queuedSessionId[w].value]
                  ELSE sessionId
  /\ queuedMessages' = [queuedMessages EXCEPT ![w] = NotQueued]
  /\ queuedSessionId' = [queuedSessionId EXCEPT ![w] = NotQueued]
  /\ pc' = [pc EXCEPT ![w] = IF queuedMessages[w].set THEN "save" ELSE "ready"]
  /\ UNCHANGED <<storage, storageMode, apiKey, tabs, page, format, input, requests, mounts, error>>

\* onChange={(e) => setInput(e.target.value)}
SetInput(w, text) ==
  /\ pc[w] = "ready"
  /\ lastOp' = Op("setInput", w)
  /\ input' = [input EXCEPT ![w] = text]
  /\ UNCHANGED <<storage, storageMode, apiKey, tabs, page, format, pc, messages, sessionId,
                 queuedMessages, queuedSessionId, requests, mounts, error>>

\* the axios.post call of a submission: its body and headers, the state of
\* its promise, and where in the history the user message and the reply of
\* the submission were appended (0: not yet)
NewRequest(w, at) ==
  [message |-> input[w], sessionId |-> sessionId[w], authorization |-> Headers(apiKey),
   status |-> "pending", userIndex |-> at, replyIndex |-> 0]

Pending(w) == {i \in DOMAIN requests[w] : requests[w][i].status = "pending"}

\* sendMessage up to its await, the render of the appended user message and
\* the save effect that follows the render
SendMessage(w) ==
  /\ pc[w] = "ready"
  /\ lastOp' = Op("sendMessage", w)
  /\ UNCHANGED <<storageMode, apiKey, tabs, page, format, sessionId, queuedMessages, queuedSessionId, mounts>>
  /\ IF Rejected(input[w])
     THEN UNCHANGED <<storage, pc, messages, input, requests, error>>
     ELSE /\ Len(messages[w]) + Cardinality(Pending(w)) + 2 <= MaxMessages
          /\ messages' = [messages EXCEPT ![w] = Append(@, UserMessage(input[w]))]
          /\ input' = [input EXCEPT ![w] = <<>>]
          /\ requests' = [requests EXCEPT ![w] = Append(@, NewRequest(w, Len(messages[w]) + 1))]
          /\ saveEffect(w, messages'[w], "ready")

\* the reply put right after the last user message, before the replies
\* that follow it, in place of the end of the history
AppendReply_AfterLastQuestion(w, content) ==
  LET prev == messages[w]
      users == {k \in DOMAIN prev : prev[k].role = "user"}
      at == IF users = {} THEN 0 ELSE CHOOSE k \in users : \A j \in users : j <= k
  IN  /\ messages' = [messages EXCEPT ![w] = SubSeq(prev, 1, at) \o <<AiMessage(content)>>
                                               \o SubSeq(prev, at + 1, Len(prev))]
      /\ saveEffect(w, messages'[w], "ready")

\* the reply appended by a settlement, its render and the save effect
AppendReply(w, content) ==
  /\ messages' = [messages EXCEPT ![w] = Append(@, AiMessage(content))]
  /\ saveEffect(w, messages'[w], "ready")

\* setMessages([...messages, aiMessage]) with the messages of the render
\* sendMessage was called in, in place of the functional updater
Resolve_StaleClosure(w, i, data) ==
  /\ pc[w] = "ready"
  /\ i \in Pending(w)
  /\ lastOp' = [Op("resolve", w) EXCEPT !.data = data]
  /\ LET closure == SubSeq(messages[w], 1, requests[w][i].userIndex - 1)
     IN  /\ requests' = [requests EXCEPT ![w][i].status = "fulfilled",
                                         ![w][i].replyIndex = Len(closure) + 1]
         /\ messages' = [messages EXCEPT ![w] =
                           Append(closure, AiMessage(formatResponse(StringValue(OutputOrFallback(data)))))]
         /\ saveEffect(w, messages'[w], "ready")
  /\ UNCHANGED <<storageMode, apiKey, tabs, page, format, input, sessionId, queuedMessages,
                 queuedSessionId, mounts>>

\* sendMessage after its await, the request answered with `data`
Resolve(w, i, data) ==
  /\ pc[w] = "ready"
  /\ i \in Pending(w)
  /\ lastOp' = [Op("resolve", w) EXCEPT !.data = data]
  /\ requests' = [requests EXCEPT ![w][i].status = "fulfilled",
                                  ![w][i].replyIndex = Len(messages[w]) + 1]
  /\ AppendReply(w, formatResponse(StringValue(OutputOrFallback(data))))
  /\ UNCHANGED <<storageMode, apiKey, tabs, page, format, input, sessionId, queuedMessages,
                 queuedSessionId, mounts>>

\* sendMessage with no catch block: the failure leaves sendMessage as an
\* unhandled rejection and no reply is appended
Reject_NoCatch(w, i, failure) ==
  /\ pc[w] = "ready"
  /\ i \in Pending(w)
  /\ lastOp' = [Op("reject", w) EXCEPT !.failure = failure]
  /\ requests' = [requests EXCEPT ![w][i].status = "rejected"]
  /\ error' = [error EXCEPT ![w] = "UnhandledRejection"]
  /\ UNCHANGED <<storage, storageMode, apiKey, tabs, page, format, pc, messages, input,
                 sessionId, queuedMessages, queuedSessionId, mounts>>

\* the catch block of sendMessage, the request failed with `failure`
Reject(w, i, failure) ==
  /\ pc[w] = "ready"
  /\ i \in Pending(w)
  /\ lastOp' = [Op("reject", w) EXCEPT !.failure = failure]
  /\ requests' = [requests EXCEPT ![w][i].status = "rejected",
                                  ![w][i].replyIndex = Len(messages[w]) + 1]
  /\ AppendReply(w, formatResponse(StringValue(errorMessage(failure))))
  /\ UNCHANGED <<storageMode, apiKey, tabs, page, format, input, sessionId, queuedMessages,
                 queuedSessionId, mounts>>

\* the page is loaded again: the widget starts from its first render, its
\* requests in flight are dropped with the page
Reload(w) ==
  /\ pc[w] \in {"ready", "crashed"}
  /\ mounts[w] < MaxMounts
  /\ lastOp' = Op("reload", w)
  /\ pc' = [pc EXCEPT ![w] = "mount"]
  /\ messages' = [messages EXCEPT ![w] = <<>>]
  /\ input' = [input EXCEPT ![w] = <<>>]
  /\ sessionId' = [sessionId EXCEPT ![w] = <<>>]
  /\ queuedMessages' = [queuedMessages EXCEPT ![w] = NotQueued]
  /\ queuedSessionId' = [queuedSessionId EXCEPT ![w] = NotQueued]
  /\ requests' = [requests EXCEPT ![w] = <<>>]
  /\ error' = [error EXCEPT ![w] = "none"]
  /\ mounts' = [mounts EXCEPT ![w] = @ + 1]
  /\ UNCHANGED <<storage, storageMode, apiKey, tabs, page, format>>

Next ==
  \/ \E w \in tabs, draws \in RandomStreams : MountEffect(w, draws)
  \/ \E w \in tabs : SaveEffect(w)
  \/ \E w \in tabs : Render(w)
  \/ \E w \in tabs, text \in UserInputs : SetInput(w, text)
  \/ \E w \in tabs : SendMessage(w)
  \/ \E w \in tabs : \E i \in DOMAIN requests[w], data \in ResponseData : Resolve(w, i, data)
  \/ \E w \in tabs : \E i \in DOMAIN requests[w], failure \in Failures : Reject(w, i, failure)
  \/ \E w \in tabs : Reload(w)

Spec == Init /\ [][Next]_vars

\* one conversation: what the user types, what the webhook answers and how a
\* request fails
TypedInputs == {<<" ">>, <<"Hello">>}
Answers == {Output(<<"Hi there", ".">>)}
Troubles == {Failure(TRUE, NotFound), Failure(FALSE, 0)}

\* the request i of the widget w gets its answer, or fails
SettleRequest(w, i) ==
  \/ \E data \in Answers : Resolve(w, i, data)
  \/ \E failure \in Troubles : Reject(w, i, failure)

\* the steps of the widget in that conversation
NextFair ==
  \/ \E w \in tabs, draws \in RandomStreams : MountEffect(w, draws)
  \/ \E w \in tabs : SaveEffect(w)
  \/ \E w \in tabs : Render(w)
  \/ \E w \in tabs, text \in TypedInputs : SetInput(w, text)
  \/ \E w \in tabs : SendMessage(w)
  \/ \E w \in tabs : \E i \in DOMAIN requests[w] : SettleRequest(w, i)
  \/ \E w \in tabs : Reload(w)

\* the requests a page load can make: each takes a user message and a reply
MaxRequests == MaxMessages \div 2

\* a fresh profile with storage working
InitFresh ==
  /\ Init
  /\ storage.chatMessages = Absent
  /\ storageMode = "ok"

\* every request in flight is settled in the end, as long as its page lives
SpecFair ==
  /\ InitFresh
  /\ [][NextFair]_vars
  /\ \A w \in Widgets : \A i \in 1..MaxRequests : WF_vars(SettleRequest(w, i))

\* the widget is open in two tabs of one browser profile: two instances of
\* Chat, each with its own React state, over the one localStorage
InitTwoTabs ==
  /\ storage = [chatMessages |-> Absent, chatSessionId |-> NoId]
  /\ storageMode = "ok"
  /\ apiKey = <<>>
  /\ tabs = Widgets
  /\ InitWidgets
  /\ page = PageIdle
  /\ format = FormatIdle

\* the steps of the two instances, each over one load of its page
NextTwoTabs ==
  \/ \E w \in tabs, draws \in RandomStreams : MountEffect(w, draws)
  \/ \E w \in tabs : SaveEffect(w)
  \/ \E w \in tabs : Render(w)
  \/ \E w \in tabs, text \in TypedInputs : SetInput(w, text)
  \/ \E w \in tabs : SendMessage(w)
  \/ \E w \in tabs : \E i \in DOMAIN requests[w] : SettleRequest(w, i)

SpecTwoTabs == InitTwoTabs /\ [][NextTwoTabs]_vars

\* ------------------------------------------------------------ ProtectedPage

chatVars ==
  <<storage, storageMode, apiKey, tabs, pc, messages, input, sessionId,
    queuedMessages, queuedSessionId, requests, mounts, error, lastOp>>

\* no widget is open: the chat state stays as it is at the start
InitChatIdle ==
  /\ storage = [chatMessages |-> Absent, chatSessionId |-> NoId]
  /\ storageMode = "ok"
  /\ apiKey = <<>>
  /\ tabs = {}
  /\ InitWidgets

\* a request of the page arrives, with what fetchAuthSession will do
InitPage ==
  /\ InitChatIdle
  /\ format = FormatIdle
  /\ page \in {[PageIdle EXCEPT !.pc = "request", !.outcome = o] : o \in FetchOutcomes}

\* const session = await runWithAmplifyServerContext({...})
FetchSession ==
  /\ page.pc = "request"
  /\ page' = [page EXCEPT !.pc = "session", !.session = operation(page.outcome)]
  /\ UNCHANGED <<chatVars, format>>

\* the rest of ProtectedPage: the groups of the session, the div returned
RenderPage ==
  /\ page.pc = "session"
  /\ page' = [page EXCEPT !.pc = "rendered",
                          !.html = IF ~Includes(GroupsOf(page.session), "admin")
                                   THEN "Access Denied: Admins Only"
                                   ELSE "Welcome, Admin! This is protected content."]
  /\ UNCHANGED <<chatVars, format>>

NextPage ==
  \/ FetchSession
  \/ RenderPage

SpecPage == InitPage /\ [][NextPage]_vars

\* ----------------------------------------------------------- formatResponse

\* the characters a text given to formatResponse is made of
Alphabet == {"a", ".", " ", NL, LongRun}

\* the texts of at most n tokens
RECURSIVE Texts(_)
Texts(n) ==
  IF n = 0 THEN {<<>>}
  ELSE Texts(n - 1) \cup
       {Append(t, c) : t \in {x \in Texts(n - 1) : Len(x) = n - 1}, c \in Alphabet}

\* text: unknown -- a string, or undefined
FormatInputs == {StringValue(t) : t \in Texts(MaxTextLength)} \cup {Undefined}

\* formatResponse is called on an input
InitFormat ==
  /\ InitChatIdle
  /\ page = PageIdle
  /\ format \in {[FormatIdle EXCEPT !.pc = "call", !.input = v] : v \in FormatInputs}

\* the call returns
FormatResponse ==
  /\ format.pc = "call"
  /\ format' = [format EXCEPT !.pc = "done", !.result = formatResponse(format.input)]
  /\ UNCHANGED <<chatVars, page>>

NextFormat == FormatResponse

SpecFormat == InitFormat /\ [][NextFormat]_vars

\* ------------------------------------------------------------------ claims

Blank(text) == \A k \in DOMAIN text : text[k] \in {" ", NL}

Last(seq) == seq[Len(seq)]

\* C1: a submission of an input that is empty or holds white space only
\* leaves the history, localStorage and the requests in flight as they were.
C1_BlankSubmissionChangesNothing ==
  [][\A w \in Widgets :
       (lastOp'.op = "sendMessage" /\ lastOp'.w = w /\ Blank(input[w]))
         => (messages' = messages /\ storage' = storage /\ requests' = requests)]_vars

\* a white-space-only input was submitted, after an earlier accepted submission
C1_Witness ==
  /\ lastOp.op = "sendMessage"
  /\ input[1] = <<" ">>
  /\ Len(requests[1]) = 1

\* C2: the user message of every accepted submission, with the raw input as
\* content, is in the history while the request is in flight and ever after,
\* and the reply to the submission comes after it.
C2_UserMessageBeforeSettlement ==
  \A w \in Widgets : \A i \in DOMAIN requests[w] :
    LET r == requests[w][i]
    IN  /\ r.userIndex \in DOMAIN messages[w]
        /\ messages[w][r.userIndex] = [role |-> "user", content |-> StringValue(r.message)]
        /\ r.status = "pending" => r.replyIndex = 0
        /\ r.status # "pending" =>
             /\ r.replyIndex \in DOMAIN messages[w]
             /\ r.replyIndex > r.userIndex
             /\ messages[w][r.replyIndex].role = "ai"

\* two submissions, the first with a trailing space, one settled and one in flight
C2_Witness ==
  /\ Len(requests[1]) = 2
  /\ requests[1][1].message = <<"Hello", " ">>
  /\ requests[1][1].status = "pending"
  /\ requests[1][2].status = "fulfilled"
  /\ Len(messages[1]) = 3

\* what formatResponse makes of the two error texts: the 404 text holds a
\* ". " and is shown as two paragraphs, the other one as a single text
NotFoundReply ==
  Blocks(<< <<"Error: Webhook not found (404)", ".">>, <<"Check n8n setup", ".">> >>)
UnreachableReply == Fragment(<<"Error: Could not reach AI">>)

\* C3: the reply appended for a failed request is the 404 text when the
\* failure carries the status 404, and "Error: Could not reach AI" for every
\* other failure.
C3_ErrorTextByStatus ==
  [][\A w \in Widgets :
       (lastOp'.op = "reject" /\ lastOp'.w = w)
         => messages'[w] =
              Append(messages[w],
                     [role |-> "ai",
                      content |-> IF lastOp'.failure.status = 404
                                  THEN NotFoundReply ELSE UnreachableReply])]_vars

\* one request failed with 404, another with 500
C3_Witness ==
  /\ lastOp.op = "reject"
  /\ lastOp.failure.status = 500
  /\ Len(messages[1]) = 4
  /\ messages[1][3].content = NotFoundReply
  /\ messages[1][4].content = UnreachableReply

\* C4: a successful response appends exactly one assistant message, whose
\* content is formatResponse of the output field, or of "AI response
\* received" when the field is absent or empty, and never an error reply.
C4_SuccessAppendsFormattedOutput ==
  [][\A w \in Widgets :
       (lastOp'.op = "resolve" /\ lastOp'.w = w)
         => LET data == lastOp'.data
                text == IF data.hasOutput /\ data.output # <<>>
                        THEN data.output ELSE <<"AI response received">>
            IN  /\ messages'[w] =
                     Append(messages[w], [role |-> "ai", content |-> formatResponse(StringValue(text))])
                /\ Last(messages'[w]).content \notin {NotFoundReply, UnreachableReply}]_vars

\* a response with an empty output field was answered with the fallback text
C4_Witness ==
  /\ lastOp.op = "resolve"
  /\ lastOp.data = Output(<<>>)
  /\ Last(messages[1]) = [role |-> "ai", content |-> Fragment(<<"AI response received">>)]

\* the stored payload is not a JSON array of messages
Malformed(entry) ==
  /\ entry.present
  /\ \/ entry.syntax \in {"garbage", "object"}
     \/ entry.syntax = "array" /\ \E i \in DOMAIN entry.items : entry.items[i].role \notin {"user", "ai"}

\* C5: with a malformed payload under chatMessages the mount completes: no
\* error escapes, the history is empty and the session id is resolved.
C5_MalformedPayloadDiscarded ==
  \A w \in Widgets :
    (storageMode = "ok" /\ lastOp.op = "mountEffect" /\ lastOp.w = w /\ Malformed(storage.chatMessages))
      => /\ pc[w] # "crashed"
         /\ error[w] = "none"
         /\ queuedSessionId[w].set
         /\ queuedMessages[w].set => queuedMessages[w].value = <<>>

\* C6: with localStorage unavailable the widget does not crash and the mount
\* produces a session id.
C6_StorageUnavailableNotFatal ==
  \A w \in Widgets :
    (storageMode # "ok" /\ pc[w] # "mount")
      => /\ pc[w] # "crashed"
         /\ error[w] = "none"
         /\ queuedSessionId[w].set \/ sessionId[w] # <<>>

HexCharacters ==
  {"0", "1", "2", "3", "4", "5", "6", "7", "8", "9", "a", "b", "c", "d", "e", "f"}

WellFormedId(id) == Len(id) = 32 /\ \A k \in DOMAIN id : id[k] \in HexCharacters

C8_StoredContentIsString ==
  (lastOp.op \in {"saveEffect", "sendMessage", "resolve", "reject"} /\ pc[lastOp.w] # "crashed")
    => \A i \in DOMAIN storage.chatMessages.items :
         storage.chatMessages.items[i].content.type = "string"

\* the texts of the blocks a content shows
BlocksOf(c) == IF c.type = "blocks" THEN c.items ELSE <<c.text>>

SingleBlock(c) == c.type \in {"string", "fragment", "blocks"} /\ Len(BlocksOf(c)) = 1

\* same length, same roles in the same order, same text in every message
Equivalent(a, b) ==
  /\ Len(a) = Len(b)
  /\ \A i \in DOMAIN a : a[i].role = b[i].role /\ BlocksOf(a[i].content) = BlocksOf(b[i].content)

\* C9: a history whose assistant messages are all single-block is equivalent
\* to what loading gives back after saving it.
C9_RoundTripOfSingleBlocks ==
  \A w \in Widgets :
    (pc[w] = "ready" /\ \A i \in DOMAIN messages[w] : SingleBlock(messages[w][i].content))
      => Equivalent(LoadedMessages(JsonStringify(storableMessages(messages[w])).items), messages[w])

\* the text of a content, its blocks joined
FlatText(c) == Join(BlocksOf(c), <<>>)

\* C10: once a mount and every mutation of the history are processed,
\* chatMessages holds the whole history in order, each entry as its role and
\* the string of its content.
C10_StorageMirrorsHistory ==
  \A w \in tabs :
    pc[w] = "ready"
      => storage.chatMessages =
           JsonArray([i \in DOMAIN messages[w] |->
                       [role |-> messages[w][i].role,
                        content |-> StringValue(FlatText(messages[w][i].content))]])

\* C11: the page renders the welcome content exactly when a session was
\* resolved and its cognito:groups list holds 'admin'; a fetch that throws, a
\* null session, a missing claim and a list without 'admin' render the denial.
C11_WelcomeIffAdmin ==
  page.pc = "rendered" =>
    /\ page.html \in {"Access Denied: Admins Only", "Welcome, Admin! This is protected content."}
    /\ page.html = "Welcome, Admin! This is protected content."
         <=> /\ page.outcome.kind = "groups"
             /\ "admin" \in {page.outcome.groups[k] : k \in DOMAIN page.outcome.groups}

\* a session with the groups ["staff", "admin"] got the welcome content
C11_Witness ==
  /\ page.pc = "rendered"
  /\ page.outcome = SessionOf("groups", <<"staff", "admin">>)
  /\ page.html = "Welcome, Admin! This is protected content."

\* the text formatResponse works on: String(text ?? '')
TextOf(v) == IF v.type = "string" THEN v.text ELSE <<>>

\* the places of t where a line starts
LineStarts(t) == {i \in 1..(Len(t) + 1) : i = 1 \/ t[i - 1] = NL}

\* the place after the end of the line of t that starts at i
LineEnd(t, i) ==
  CHOOSE j \in i..(Len(t) + 1) :
    /\ j = Len(t) + 1 \/ t[j] = NL
    /\ \A k \in i..(j - 1) : t[k] # NL

\* the lines of t that hold something other than white space, in order
NonBlankLines(t) ==
  LET starts == {i \in LineStarts(t) :
                   \E k \in i..(LineEnd(t, i) - 1) : ~IsWhiteSpace(t[k])}
      nth(n) == CHOOSE i \in starts : Cardinality({j \in starts : j < i}) = n - 1
  IN  [n \in 1..Cardinality(starts) |-> SubSeq(t, nth(n), LineEnd(t, nth(n)) - 1)]

\* t holds the two characters ". "
HasPeriodSpace(t) == \E i \in 1..(Len(t) - 1) : t[i] = "." /\ t[i + 1] = " "

\* C12: with two or more non-blank lines formatResponse returns one block per
\* non-blank line, in order and as the line is; with fewer, no ". " and at
\* most 100 characters it returns the one block of the text as it is.
C12_LinesOrUntouchedBlock ==
  format.pc = "done" =>
    LET t == TextOf(format.input)
        lines == NonBlankLines(t)
    IN  /\ Len(lines) >= 2 => format.result = Blocks(lines)
        /\ (Len(lines) < 2 /\ ~HasPeriodSpace(t) /\ TextLength(t) <= LongTextLimit)
             => format.result = Fragment(t)

\* ". \na" came back as the two blocks ". " and "a"
C12_Witness ==
  /\ format.pc = "done"
  /\ format.input = StringValue(<<".", " ", NL, "a">>)
  /\ format.result = Blocks(<< <<".", " ">>, <<"a">> >>)

\* a fragment trimmed, with a period appended when it has none
Finished(f) == IF EndsWithPeriod(Trim(f)) THEN Trim(f) ELSE Trim(f) \o <<".">>

\* C13: on the sentence path formatResponse returns one block per fragment of
\* the split on ". ", each the trimmed fragment ending in the period it had
\* or in one appended period when it had none.
C13_SentencesEndInOnePeriod ==
  format.pc = "done" =>
    LET t == TextOf(format.input)
        fragments == Split(t, <<".", " ">>)
    IN  (/\ Len(NonBlankLines(t)) < 2
         /\ Len(fragments) >= 2 \/ TextLength(t) > LongTextLimit)
          => format.result = Blocks([i \in DOMAIN fragments |-> Finished(fragments[i])])

\* C14: with storage working, once the mount effect of a widget has run a
\* session id is held by the widget and stored under chatSessionId, whatever
\* chatMessages held (nothing, an empty or a malformed payload, a history).
C14_SessionIdAfterMount ==
  \A w \in tabs :
    (storageMode = "ok" /\ pc[w] # "mount") =>
      /\ queuedSessionId[w].set \/ sessionId[w] # <<>>
      /\ TruthyId(storage.chatSessionId)

\* the request i of the widget w settles in the step
Settles(w, i) ==
  /\ mounts'[w] = mounts[w]
  /\ requests[w][i].status = "pending"
  /\ requests'[w][i].status # "pending"

\* C15: requests can be in flight together and the reply of a request that
\* settles goes to the end of the history, after the replies of the requests
\* that settled before it, wherever its own user message is.
C15_RepliesInResolutionOrder ==
  [][\A w \in tabs : \A i \in DOMAIN requests[w] :
       Settles(w, i) =>
         /\ Len(messages'[w]) = Len(messages[w]) + 1
         /\ SubSeq(messages'[w], 1, Len(messages[w])) = messages[w]
         /\ Last(messages'[w]).role = "ai"
         /\ requests'[w][i].replyIndex = Len(messages'[w])
         /\ \A j \in DOMAIN requests[w] \ {i} :
              /\ requests'[w][j] = requests[w][j]
              /\ requests[w][j].replyIndex < requests'[w][i].replyIndex]_vars

\* two requests were in flight together; the second failed first and its
\* reply stands before the reply of the first
C15_Witness ==
  /\ Len(requests[1]) = 2
  /\ requests[1][1].status = "fulfilled"
  /\ requests[1][2].status = "rejected"
  /\ requests[1][1].userIndex = 1
  /\ requests[1][2].userIndex = 2
  /\ messages[1][3] = AiMessage(UnreachableReply)
  /\ messages[1][4] = AiMessage(Blocks(<< <<"a">>, <<"b">> >>))

\* the number of ai messages of msgs from the place `from` on
AiCount(msgs, from) == Cardinality({k \in from..Len(msgs) : msgs[k].role = "ai"})

SettledRequests(w) == DOMAIN requests[w] \ Pending(w)

\* every settled request of a page load has its one reply, a pending one has
\* none, and nothing escaped sendMessage
C16_OneReplyPerSettlement ==
  \A w \in tabs :
    requests[w] # <<>> =>
      /\ pc[w] = "ready"
      /\ error[w] = "none"
      /\ AiCount(messages[w], requests[w][1].userIndex) = Cardinality(SettledRequests(w))
      /\ \A i \in Pending(w) : requests[w][i].replyIndex = 0
      /\ \A i \in SettledRequests(w) :
           /\ requests[w][i].replyIndex \in DOMAIN messages[w]
           /\ messages[w][requests[w][i].replyIndex].role = "ai"
           /\ \A j \in SettledRequests(w) \ {i} :
                requests[w][j].replyIndex # requests[w][i].replyIndex

\* the request i of the load m of the page of widget w is in flight
InFlight(w, i, m) ==
  mounts[w] = m /\ i \in DOMAIN requests[w] /\ requests[w][i].status = "pending"

\* that request has its reply, or that page is gone
Answered(w, i, m) ==
  \/ mounts[w] # m
  \/ /\ i \in DOMAIN requests[w]
     /\ requests[w][i].status # "pending"
     /\ messages[w][requests[w][i].replyIndex].role = "ai"

\* C16: a request that settles, with an answer or a failure, gets exactly one
\* assistant message and no error leaves sendMessage; a request still pending
\* has none; with every request settled in the end, every accepted submission
\* is followed by its assistant message while its page is loaded.
C16_EverySubmissionAnswered ==
  /\ []C16_OneReplyPerSettlement
  /\ \A w \in Widgets : \A i \in 1..MaxRequests : \A m \in 1..MaxMounts :
       InFlight(w, i, m) ~> Answered(w, i, m)

\* a request failed with an error that is not an axios error and has its
\* reply, while a later request is still pending with none
C16_Witness ==
  /\ Len(requests[1]) = 2
  /\ requests[1][1].status = "rejected"
  /\ requests[1][2].status = "pending"
  /\ lastOp.op = "reject"
  /\ lastOp.failure = Failure(FALSE, 0)
  /\ messages[1] = <<UserMessage(<<"Hello">>), UserMessage(<<"Hello">>), AiMessage(UnreachableReply)>>

\* the entries chatMessages holds
StoredEntries == {storage.chatMessages.items[k] : k \in DOMAIN storage.chatMessages.items}

\* the entries the save effect of the widget w writes for its history
EntriesOf(w) ==
  LET written == JsonStringify(storableMessages(messages[w])).items
  IN  {written[k] : k \in DOMAIN written}

\* C17: a submission or a settlement in one instance leaves the history the
\* other instance holds as it is, and leaves in chatMessages every message
\* the other instance has persisted there.
C17_InstancesDoNotInterfere ==
  [][\A v \in tabs : \A w \in tabs \ {v} :
       (lastOp'.w = v /\ lastOp'.op \in {"sendMessage", "resolve", "reject"})
         => /\ messages'[w] = messages[w]
            /\ \A entry \in EntriesOf(w) :
                 entry \in StoredEntries => entry \in StoredEntries']_vars

\* C18: a request is dispatched with the submitted text as its message, with
\* the non-empty id stored under chatSessionId as its sessionId, and with the
\* header Authorization "Bearer <apiKey>" when the key is not empty and no
\* Authorization header when it is; its body and headers stay as dispatched.
C18_RequestCarriesTextIdAndKey ==
  [][\A w \in tabs :
       mounts'[w] = mounts[w] =>
         /\ \A i \in DOMAIN requests'[w] \ DOMAIN requests[w] :
              LET r == requests'[w][i]
              IN  /\ lastOp'.op = "sendMessage"
                  /\ r.message = input[w]
                  /\ r.sessionId # <<>>
                  /\ storage.chatSessionId.present
                  /\ r.sessionId = storage.chatSessionId.value
                  /\ apiKey # <<>> => r.authorization = <<"Bearer", " ">> \o apiKey
                  /\ apiKey = <<>> => r.authorization = <<>>
         /\ \A i \in DOMAIN requests[w] :
              /\ requests'[w][i].message = requests[w][i].message
              /\ requests'[w][i].sessionId = requests[w][i].sessionId
              /\ requests'[w][i].authorization = requests[w][i].authorization]_vars

\* with the key "k" configured, "Hello " was sent as typed, with the stored
\* session id and the header "Bearer k"
C18_Witness ==
  /\ apiKey = <<"k">>
  /\ lastOp.op = "sendMessage"
  /\ Len(requests[1]) = 1
  /\ requests[1][1].message = <<"Hello", " ">>
  /\ requests[1][1].authorization = <<"Bearer", " ", "k">>
  /\ WellFormedId(requests[1][1].sessionId)
  /\ requests[1][1].sessionId = storage.chatSessionId.value

\* s is the beginning of t
IsPrefix(s, t) == Len(s) <= Len(t) /\ SubSeq(t, 1, Len(s)) = s

\* the number of messages of msgs with the role `role` from the place `from` on
RoleCount(msgs, role, from) ==
  Cardinality({k \in from..Len(msgs) : msgs[k].role = role})

\* the history of a widget that accepted k submissions, j of them settled, is
\* the history it had before the first one, then k user messages in
\* submission order and j ai messages
C19_LoadedThenSubmissionsAndReplies ==
  \A w \in tabs :
    requests[w] # <<>> =>
      LET first == requests[w][1].userIndex
          k == Len(requests[w])
          j == Cardinality(SettledRequests(w))
      IN  /\ Len(messages[w]) = (first - 1) + k + j
          /\ RoleCount(messages[w], "user", first) = k
          /\ RoleCount(messages[w], "ai", first) = j
          /\ \A i \in DOMAIN requests[w] :
               /\ messages[w][requests[w][i].userIndex] = UserMessage(requests[w][i].message)
               /\ \A i2 \in DOMAIN requests[w] :
                    i < i2 => requests[w][i].userIndex < requests[w][i2].userIndex

\* C19: while its page is loaded the history of a widget only grows at its
\* end, whatever the order of submissions and settlements: no entry is
\* removed, moved or replaced, no update is lost, and after k accepted
\* submissions and j settlements it is the loaded history followed by k user
\* messages, in submission order, and j ai messages.
C19_HistoryAppendOnly ==
  /\ []C19_LoadedThenSubmissionsAndReplies
  /\ [][\A w \in tabs :
          mounts'[w] = mounts[w] =>
            /\ IsPrefix(messages[w], messages'[w])
            /\ lastOp'.op \in {"resolve", "reject"} /\ lastOp'.w = w
                 => Len(messages'[w]) = Len(messages[w]) + 1
            /\ (lastOp'.op = "sendMessage" /\ lastOp'.w = w /\ ~Blank(input[w]))
                 => messages'[w] = Append(messages[w], UserMessage(input[w]))]_vars

\* on a loaded history of two messages, a submission was accepted and its
\* request answered: the loaded messages, the user message, the reply
C19_Witness ==
  /\ mounts[1] = 2
  /\ Len(requests[1]) = 1
  /\ requests[1][1].userIndex = 3
  /\ requests[1][1].status = "fulfilled"
  /\ Len(messages[1]) = 4
  /\ messages[1][1] = UserMessage(<<"Hello">>)
  /\ messages[1][2].role = "ai"
  /\ messages[1][3] = UserMessage(<<"Hello", " ">>)
  /\ messages[1][4] = AiMessage(Fragment(<<"Hi there", ".">>))

\* the entry holds a JSON array of one or more messages, each a role and a
\* string
ValidHistory(entry) ==
  /\ entry.present
  /\ entry.syntax = "array"
  /\ entry.items # <<>>
  /\ \A k \in DOMAIN entry.items :
       /\ entry.items[k].role \in {"user", "ai"}
       /\ entry.items[k].content.type = "string"

\* C20: with a valid non-empty history under chatMessages and no submission
\* made, no step of a mount (the mount effect, the first save effect, the
\* render of the loaded history, the second save effect) changes chatMessages.
C20_MountKeepsStoredHistory ==
  [][\A w \in tabs :
       (/\ lastOp'.w = w
        /\ lastOp'.op \in {"mountEffect", "saveEffect", "render"}
        /\ requests[w] = <<>>
        /\ ValidHistory(storage.chatMessages))
         => storage'.chatMessages = storage.chatMessages]_vars

====
